---------------------------- MODULE Spec2Model ----------------------------
(***************************************************************************)
(* Hydrogen-bond stratification and water-bridge inference of getcontacts  *)
(* (contact_calc/stratify_hbonds.py, contact_calc/contact_utils.py), and   *)
(* the psi angle of two aromatic rings (contact_utils.py).                 *)
(*                                                                         *)
(* Atom labels are the colon-joined strings the code works on; a contact   *)
(* is the 4-tuple <<frame_idx, atom1_label, atom2_label, itype>>; an       *)
(* output row is the Python list the code builds, as a tuple.              *)
(***************************************************************************)
EXTENDS Integers, Sequences, FiniteSets, TLC

VARIABLES
    hbonds,             \* the contact list handed to the called function
    solvent_resn,       \* the solvent token
    call,               \* "none", or the function that has been applied
    raised,             \* "none", or the exception the call ended with
    residue_hbonds,     \* residue_vs_water_hbonds: first result
    water_hbonds,       \* residue_vs_water_hbonds: second result
    hbss, hbsb, hbbb,   \* stratify_residue_hbonds: the three buckets
    wb,                 \* stratify_water_bridge: result
    wb2,                \* stratify_extended_water_bridge: result
    frame_idx,          \* calc_water_to_residues_map: first result
    water_to_residues,  \* calc_water_to_residues_map: second result (dict)
    solvent_bridges,    \* calc_water_to_residues_map: third result
    result,             \* stratify_hbond_subtypes: returned list
    center1, center2,   \* calc_geom_psi_angle: the two ring centers
    normal_vector,      \* calc_geom_psi_angle: the normal of ring 1
    psi_angle           \* calc_geom_psi_angle: result

\* the variables of the stratification and those of the ring geometry
strat == <<hbonds, solvent_resn, residue_hbonds, water_hbonds,
           hbss, hbsb, hbbb, wb, wb2, frame_idx, water_to_residues,
           solvent_bridges, result>>
geom == <<center1, center2, normal_vector, psi_angle>>

vars == <<hbonds, solvent_resn, call, raised, residue_hbonds, water_hbonds,
          hbss, hbsb, hbbb, wb, wb2, frame_idx, water_to_residues,
          solvent_bridges, result, center1, center2, normal_vector, psi_angle>>

---------------------------------------------------------------------------
(* Bounds of the checked input space.                                      *)

MaxResLen == 3      \* longest residue-residue batch
MaxBridgeLen == 4   \* longest water-protein batch
MaxWaterLen == 4    \* longest water-touching batch
MaxLen == 3         \* longest mixed batch
MaxSolventLen == 2  \* longest batch of the solvent-recognition space
MaxParseLen == 2    \* longest batch of the label-format space
MaxCoord == 1       \* largest coordinate of a ring center or normal
MaxFrameLen == 4    \* longest mixed-frame batch

---------------------------------------------------------------------------
(* The atoms, solvent tokens and frame indices batches are drawn from.     *)

TIP3 == "TIP3"

\* sidechain atoms whose names start with a backbone name, and the backbone
SideAtoms == {"A:ASP:12:OD1:100", "A:ARG:50:NH1:200"}
BackAtoms == {"A:ARG:50:N:200", "A:GLY:7:O:300"}
ResidueAtoms == SideAtoms \cup BackAtoms

Waters == {"W:TIP3:1:OH2:900", "W:TIP3:2:OH2:903"}
Proteins3 == {"A:ASP:12:OD1:100", "A:ARG:50:N:200", "A:GLY:7:O:300"}
Proteins2 == {"A:ASP:12:OD1:100", "A:ARG:50:N:200"}

Frames == {0, 3}

\* every atom label of the stratification input space
Labels == ResidueAtoms \cup Waters

\* labels that hold a token outside their residue name: TIP3 (and so TIP)
\* as the chain, TIP alone as the atom name
Decoys == {"TIP3:ASP:12:OD1:100", "A:LIG:7:TIP:300"}

\* every solvent token: a residue name, and a part of one
Tokens == {TIP3, "TIP"}

\* labels of three, four and six fields, and a solvent label of three
Malformed == {"A:ASP:12", "A:ASP:12:OD1", "A:ASP:12:OD1:100:X", "W:TIP3:1"}

\* every string the primitives below are tabulated over
Strings == Labels \cup Decoys \cup Malformed

---------------------------------------------------------------------------
(* Python string primitives.                                               *)

\* The characters of the labels, in code-point order (str comparison).
Alphabet == "0123456789:ABCDEFGHIJKLMNOPQRSTUVWXYZ_abcdefghijklmnopqrstuvwxyz"

Char(s, i) == SubSeq(s, i, i)

Ord(c) == CHOOSE i \in 1..Len(Alphabet) : Char(Alphabet, i) = c

\* Python: tok in s
Contains(tok, s) ==
    \E i \in 1..(Len(s) - Len(tok) + 1) : SubSeq(s, i, i + Len(tok) - 1) = tok

\* Python: s.split(":")
RECURSIVE Split(_)
Split(s) ==
    LET colons == {i \in 1..Len(s) : Char(s, i) = ":"}
    IN  IF colons = {} THEN <<s>>
        ELSE LET i == CHOOSE k \in colons : \A j \in colons : k <= j
             IN  <<SubSeq(s, 1, i - 1)>> \o Split(SubSeq(s, i + 1, Len(s)))

\* Python: a < b on str
StrLess(a, b) ==
    LET n == IF Len(a) < Len(b) THEN Len(a) ELSE Len(b)
        diff == {i \in 1..n : Char(a, i) # Char(b, i)}
    IN  IF diff = {} THEN Len(a) < Len(b)
        ELSE LET i == CHOOSE k \in diff : \A j \in diff : k <= j
             IN  Ord(Char(a, i)) < Ord(Char(b, i))

\* The three primitives, tabulated once over the input space's strings.
SplitTable == [l \in Strings |-> Split(l)]
ContainsTable == [t \in Tokens |-> [l \in Strings |-> Contains(t, l)]]
StrLessTable == [a \in Strings |-> [b \in Strings |-> StrLess(a, b)]]

Fields(label) ==
    IF label \in Strings THEN SplitTable[label] ELSE Split(label)

StrIn(tok, s) ==
    IF tok \in Tokens /\ s \in Strings THEN ContainsTable[tok][s]
    ELSE Contains(tok, s)

Less(a, b) ==
    IF a \in Strings /\ b \in Strings THEN StrLessTable[a][b] ELSE StrLess(a, b)

\* Python: r < s on tuples of str
StrSeqLess(r, s) ==
    LET n == IF Len(r) < Len(s) THEN Len(r) ELSE Len(s)
        diff == {i \in 1..n : r[i] # s[i]}
    IN  IF diff = {} THEN Len(r) < Len(s)
        ELSE LET i == CHOOSE k \in diff : \A j \in diff : k <= j
             IN  Less(r[i], s[i])

\* Python: r < s on tuples / lists whose first item is the int frame index
\* and whose other items are str
RowLess(r, s) ==
    IF r[1] # s[1] THEN r[1] < s[1] ELSE StrSeqLess(Tail(r), Tail(s))

\* Python: sorted(list(S)) for a set of str
RECURSIVE SortedStrs(_)
SortedStrs(S) ==
    IF S = {} THEN <<>>
    ELSE LET m == CHOOSE x \in S : \A y \in S : x = y \/ Less(x, y)
         IN  <<m>> \o SortedStrs(S \ {m})

\* Python: sorted(list(S)) for a set of tuples of str
RECURSIVE SortedPairs(_)
SortedPairs(S) ==
    IF S = {} THEN <<>>
    ELSE LET m == CHOOSE x \in S : \A y \in S : x = y \/ StrSeqLess(x, y)
         IN  <<m>> \o SortedPairs(S \ {m})

\* Python: sorted(list(S)) for a set of rows
RECURSIVE SortedRows(_)
SortedRows(S) ==
    IF S = {} THEN <<>>
    ELSE LET m == CHOOSE x \in S : \A y \in S : x = y \/ RowLess(x, y)
         IN  <<m>> \o SortedRows(S \ {m})

---------------------------------------------------------------------------
(* Python float arithmetic (IEEE-754 binary64) on the values the angle     *)
(* computation meets.  A natural number is a little-endian sequence of     *)
(* limbs below LimbBase with a nonzero last limb; a positive float is a    *)
(* record [m, e] standing for m * 2^e, m of at most Precision bits after   *)
(* rounding.                                                               *)

LimbBits == 13
LimbBase == 2^LimbBits
Precision == 53

Max(a, b) == IF a < b THEN b ELSE a

\* drop the zero limbs at the most significant end
RECURSIVE Trim(_)
Trim(a) ==
    IF a = <<>> \/ a[Len(a)] # 0 THEN a ELSE Trim(SubSeq(a, 1, Len(a) - 1))

\* the limbs of the number whose column sums are cols, carry c coming in
RECURSIVE Carry(_, _)
Carry(cols, c) ==
    IF cols = <<>>
    THEN (IF c = 0 THEN <<>> ELSE <<c % LimbBase>> \o Carry(<<>>, c \div LimbBase))
    ELSE <<(Head(cols) + c) % LimbBase>>
             \o Carry(Tail(cols), (Head(cols) + c) \div LimbBase)

Limb(a, i) == IF i \in 1..Len(a) THEN a[i] ELSE 0

BigOf(n) == Trim(Carry(<<n>>, 0))

BigAdd(a, b) ==
    Trim(Carry([i \in 1..Max(Len(a), Len(b)) |-> Limb(a, i) + Limb(b, i)], 0))

\* the sum of a[i] * b[k - i + 1] over the limbs i..Len(a) of a
RECURSIVE Column(_, _, _, _)
Column(a, b, k, i) ==
    IF i > Len(a) THEN 0
    ELSE a[i] * Limb(b, k - i + 1) + Column(a, b, k, i + 1)

BigMul(a, b) ==
    IF a = <<>> \/ b = <<>> THEN <<>>
    ELSE Trim(Carry([k \in 1..(Len(a) + Len(b) - 1) |-> Column(a, b, k, 1)], 0))

BigLess(a, b) ==
    IF Len(a) # Len(b) THEN Len(a) < Len(b)
    ELSE \E i \in 1..Len(a) :
             /\ a[i] < b[i]
             /\ \A j \in (i + 1)..Len(a) : a[j] = b[j]

\* a * 2^k
ShiftLeft(a, k) ==
    IF a = <<>> THEN <<>>
    ELSE [i \in 1..(k \div LimbBits) |-> 0] \o BigMul(a, <<2^(k % LimbBits)>>)

\* a \div 2^k
ShiftRight(a, k) ==
    LET d == SubSeq(a, (k \div LimbBits) + 1, Len(a))
        r == k % LimbBits
    IN  Trim([i \in 1..Len(d) |->
                 (d[i] \div 2^r) + (Limb(d, i + 1) % 2^r) * 2^(LimbBits - r)])

\* the number of bits of a
BitLength(a) ==
    IF a = <<>> THEN 0
    ELSE (Len(a) - 1) * LimbBits
           + (CHOOSE b \in 1..LimbBits : 2^(b - 1) <= a[Len(a)] /\ a[Len(a)] < 2^b)

IsOdd(a) == a # <<>> /\ a[1] % 2 = 1

\* round to nearest, ties to even: the float nearest to t * 2^e
RoundNearestEven(t, e) ==
    LET s == BitLength(t) - Precision
        q == ShiftRight(t, s)
        half == ShiftLeft(BigAdd(ShiftLeft(q, 1), BigOf(1)), s - 1)
    IN  IF s <= 0 THEN [m |-> t, e |-> e]
        ELSE IF BigLess(half, t) \/ (half = t /\ IsOdd(q))
        THEN [m |-> BigAdd(q, BigOf(1)), e |-> e + s]
        ELSE [m |-> q, e |-> e + s]

\* r with its bit set
WithBit(r, bit) == BigAdd(r, ShiftLeft(BigOf(1), bit))

\* the greatest r with r * r <= n, one bit at a time from bit down
RECURSIVE SqrtBits(_, _, _)
SqrtBits(n, r, bit) ==
    IF bit < 0 THEN r
    ELSE IF BigLess(n, BigMul(WithBit(r, bit), WithBit(r, bit)))
    THEN SqrtBits(n, r, bit - 1)
    ELSE SqrtBits(n, WithBit(r, bit), bit - 1)

\* math.sqrt(n) for an integer n >= 1: the square root of n * 2^sh, sh even
\* and the product of 2 * Precision - 1 or 2 * Precision bits, rounded to
\* nearest (a square root is never half-way between two floats)
FloatSqrt(n) ==
    LET b  == BitLength(BigOf(n))
        sh == IF (2 * Precision - b) % 2 = 0 THEN 2 * Precision - b
              ELSE 2 * Precision - 1 - b
        big == ShiftLeft(BigOf(n), sh)
        r  == SqrtBits(big, <<>>, Precision - 1)
        r2 == BigAdd(ShiftLeft(r, 1), BigOf(1))
    IN  [m |-> IF BigLess(BigMul(r2, r2), ShiftLeft(big, 2))
               THEN BigAdd(r, BigOf(1)) ELSE r,
         e |-> -(sh \div 2)]

\* x * y on floats
FloatMul(x, y) == RoundNearestEven(BigMul(x.m, y.m), x.e + y.e)

\* n / x > 1.0 on floats, for an integer n >= 0 and a float x > 0: the
\* quotient rounds to a float above 1.0 exactly when it is above
\* 1 + 2^-Precision, half-way between 1.0 and the next float
QuotientAboveOne(n, x) ==
    BigLess(ShiftLeft(BigAdd(ShiftLeft(x.m, Precision), x.m), Max(x.e, 0)),
            ShiftLeft(BigOf(n), Precision + Max(-x.e, 0)))

\* math.sqrt on the squared lengths that occur, computed once
MaxNorm == 3 * (2 * MaxCoord) * (2 * MaxCoord)
SqrtTable == [n \in 0..MaxNorm |-> FloatSqrt(n)]

---------------------------------------------------------------------------
(* contact_utils.py: ring geometry.  A point or vector is a triple of      *)
(* integers; an angle in degrees is kept to the nearest whole degree, or   *)
(* is nan.                                                                 *)

Degrees(n) == [nan |-> FALSE, deg |-> n]
NaN == [nan |-> TRUE, deg |-> 0]

Abs(n) == IF n < 0 THEN -n ELSE n
Min(a, b) == IF b < a THEN b ELSE a

\* np.dot of two vectors
Dot(u, v) == u[1] * v[1] + u[2] * v[2] + u[3] * v[3]

points_to_vector(point1, point2) == [i \in 1..3 |-> point2[i] - point1[i]]

calc_vector_length(vector) == SqrtTable[Dot(vector, vector)]

\* cos^2 of k - 1/2 degrees for k = 1..90, in units of 1 / DegreeScale
DegreeScale == 100000
HalfDegreeCos2 ==
    <<99992, 99931, 99810, 99627, 99384, 99081, 98719, 98296, 97815, 97276,
      96679, 96025, 95315, 94550, 93731, 92858, 91934, 90958, 89932, 88857,
      87735, 86568, 85355, 84100, 82803, 81466, 80091, 78679, 77232, 75752,
      74240, 72700, 71131, 69537, 67918, 66278, 64619, 62941, 61248, 59540,
      57822, 56093, 54358, 52617, 50873, 49127, 47383, 45642, 43907, 42178,
      40460, 38752, 37059, 35381, 33722, 32082, 30463, 28869, 27300, 25760,
      24248, 22768, 21321, 19909, 18534, 17197, 15900, 14645, 13432, 12265,
      11143, 10068, 9042, 8066, 7142, 6269, 5450, 4685, 3975, 3321,
      2724, 2185, 1704, 1281, 919, 616, 373, 190, 69, 8>>

\* math.degrees(math.acos(d / sqrt(n))) to the nearest whole degree, for
\* d * d <= n: the number of half-degree marks the angle lies beyond
WholeDegrees(d, n) ==
    LET acute == Cardinality({k \in 1..90 :
                                 d * d * DegreeScale < HalfDegreeCos2[k] * n})
    IN  IF d >= 0 THEN acute ELSE 180 - acute

\* the quotient is 0.0 / 0.0 = nan for a vector of length 0.0, and acos of
\* nan is nan; acos raises ValueError (math domain error) for a quotient
\* beyond 1.0 or -1.0
calc_angle_between_vectors(vector1, vector2) ==
    LET d == Dot(vector1, vector2)
        lengths == FloatMul(calc_vector_length(vector1), calc_vector_length(vector2))
    IN  IF lengths.m = <<>>
        THEN [raised |-> "none", angle |-> NaN]
        ELSE IF QuotientAboveOne(Abs(d), lengths)
        THEN [raised |-> "ValueError", angle |-> NaN]
        ELSE [raised |-> "none",
              angle |-> Degrees(WholeDegrees(d, Dot(vector1, vector1)
                                                  * Dot(vector2, vector2)))]

\* min(math.fabs(psi_angle - 0), math.fabs(psi_angle - 180))
FoldAngle(a) ==
    IF a.nan THEN NaN ELSE Degrees(Min(Abs(a.deg - 0), Abs(a.deg - 180)))

calc_geom_psi_angle(c1, c2, normal) ==
    LET center_to_center_vector == points_to_vector(c2, c1)
        a == calc_angle_between_vectors(normal, center_to_center_vector)
    IN  IF a.raised # "none"
        THEN [raised |-> a.raised, psi_angle |-> Degrees(0)]
        ELSE [raised |-> "none", psi_angle |-> FoldAngle(a.angle)]

---------------------------------------------------------------------------
(* stratify_hbonds.py                                                      *)

\* hbond touches solvent: the condition of the split
TouchesSolvent(hbond, resn) ==
    StrIn(resn, hbond[2]) \/ StrIn(resn, hbond[3])

\* mutant: a bond counts as water-mediated only when both atoms are solvent
residue_vs_water_hbonds_both(hbs, resn) ==
    [residue |-> SelectSeq(hbs, LAMBDA h : ~(StrIn(resn, h[2]) /\ StrIn(resn, h[3]))),
     water   |-> SelectSeq(hbs, LAMBDA h : StrIn(resn, h[2]) /\ StrIn(resn, h[3]))]

residue_vs_water_hbonds(hbs, resn) ==
    [residue |-> SelectSeq(hbs, LAMBDA h : ~TouchesSolvent(h, resn)),
     water   |-> SelectSeq(hbs, LAMBDA h : TouchesSolvent(h, resn))]

backbone_atoms == {"N", "O"}

\* atomN_label.split(":")[3] exists
HasAtomField(label) == Len(Fields(label)) >= 4

\* atomN_label.split(":")[3]
AtomName(label) == Fields(label)[4]

\* mutant: a name counts as backbone when it starts with a backbone name
IsBackboneByPrefix(atom) == Char(atom, 1) \in backbone_atoms

IsBackbone(atom) == atom \in backbone_atoms

\* first if of the loop body
IsHbss(h) == ~IsBackbone(AtomName(h[2])) /\ ~IsBackbone(AtomName(h[3]))

\* mutant: the second if without its second alternative
IsHbsbOneWay(h) == ~IsBackbone(AtomName(h[2])) /\ IsBackbone(AtomName(h[3]))

\* second if of the loop body
IsHbsb(h) ==
    \/ ~IsBackbone(AtomName(h[2])) /\ IsBackbone(AtomName(h[3]))
    \/ IsBackbone(AtomName(h[2])) /\ ~IsBackbone(AtomName(h[3]))

\* third if of the loop body
IsHbbb(h) == IsBackbone(AtomName(h[2])) /\ IsBackbone(AtomName(h[3]))

\* the rows a bucket collects from the contacts sel that pass its if, in
\* input order: [frame_idx, tag, atom1_label, atom2_label]
Rows(sel, tag) ==
    [i \in 1..Len(sel) |-> <<sel[i][1], tag, sel[i][2], sel[i][3]>>]

stratify_residue_hbonds(rhs) ==
    IF \E i \in 1..Len(rhs) : ~HasAtomField(rhs[i][2]) \/ ~HasAtomField(rhs[i][3])
    THEN [raised |-> "IndexError", hbss |-> <<>>, hbsb |-> <<>>, hbbb |-> <<>>]
    ELSE [raised |-> "none",
          hbss |-> Rows(SelectSeq(rhs, IsHbss), "hbss"),
          hbsb |-> Rows(SelectSeq(rhs, IsHbsb), "hbsb"),
          hbbb |-> Rows(SelectSeq(rhs, IsHbbb), "hbbb")]

---------------------------------------------------------------------------
(* contact_utils.py: calc_water_to_residues_map                            *)

EmptyDict == [w \in {} |-> {}]

\* water_to_residues[water].add(protein), creating the set when absent
DictAdd(d, water, protein) ==
    [w \in DOMAIN d \cup {water} |->
        IF w = water
        THEN (IF water \in DOMAIN d THEN d[water] ELSE {}) \cup {protein}
        ELSE d[w]]

\* mutant: the solvent-solvent branch without its continue, falling into
\* the map update with atom1 as the water
MapStepNoContinue(st, h, resn) ==
    LET in1 == StrIn(resn, h[2])
        in2 == StrIn(resn, h[3])
        fr  == [st EXCEPT !.frame_idx = h[1]]
    IN  IF in1 /\ in2
        THEN [fr EXCEPT !.bridges = Append(@, <<h[2], h[3]>>),
                        !.dict = DictAdd(@, h[2], h[3])]
        ELSE IF in1 /\ ~in2
        THEN [fr EXCEPT !.dict = DictAdd(@, h[2], h[3])]
        ELSE IF ~in1 /\ in2
        THEN [fr EXCEPT !.dict = DictAdd(@, h[3], h[2])]
        ELSE [fr EXCEPT !.raised = "ValueError"]

\* mutant: a solvent-solvent contact leaves the frame index as it was
MapStepFrameOfMapped(st, h, resn) ==
    LET in1 == StrIn(resn, h[2])
        in2 == StrIn(resn, h[3])
        fr  == [st EXCEPT !.frame_idx = h[1]]
    IN  IF in1 /\ in2
        THEN [st EXCEPT !.bridges = Append(@, <<h[2], h[3]>>)]
        ELSE IF in1 /\ ~in2
        THEN [fr EXCEPT !.dict = DictAdd(@, h[2], h[3])]
        ELSE IF ~in1 /\ in2
        THEN [fr EXCEPT !.dict = DictAdd(@, h[3], h[2])]
        ELSE [fr EXCEPT !.raised = "ValueError"]

\* mutant: a contact without solvent atom is passed over
MapStepSkipUnresolved(st, h, resn) ==
    LET in1 == StrIn(resn, h[2])
        in2 == StrIn(resn, h[3])
        fr  == [st EXCEPT !.frame_idx = h[1]]
    IN  IF in1 /\ in2
        THEN [fr EXCEPT !.bridges = Append(@, <<h[2], h[3]>>)]
        ELSE IF in1 /\ ~in2
        THEN [fr EXCEPT !.dict = DictAdd(@, h[2], h[3])]
        ELSE IF ~in1 /\ in2
        THEN [fr EXCEPT !.dict = DictAdd(@, h[3], h[2])]
        ELSE fr

\* one iteration of the first loop over contact h, from loop state st
MapStep(st, h, resn) ==
    LET in1 == StrIn(resn, h[2])
        in2 == StrIn(resn, h[3])
        fr  == [st EXCEPT !.frame_idx = h[1]]
    IN  IF in1 /\ in2
        THEN [fr EXCEPT !.bridges = Append(@, <<h[2], h[3]>>)]
        ELSE IF in1 /\ ~in2
        THEN [fr EXCEPT !.dict = DictAdd(@, h[2], h[3])]
        ELSE IF ~in1 /\ in2
        THEN [fr EXCEPT !.dict = DictAdd(@, h[3], h[2])]
        ELSE [fr EXCEPT !.raised = "ValueError"]

\* the first loop, from contact i on; a raise ends it
RECURSIVE MapLoop(_, _, _, _)
MapLoop(whs, i, resn, st) ==
    IF i > Len(whs) \/ st.raised # "none" THEN st
    ELSE MapLoop(whs, i + 1, resn, MapStep(st, whs[i], resn))

\* mutant: every pair stored with its lesser label first
DedupLoopCanonical(bridges, i, acc) ==
    acc \cup {IF Less(bridges[k][2], bridges[k][1])
              THEN <<bridges[k][2], bridges[k][1]>> ELSE bridges[k] :
                k \in i..Len(bridges)}

\* mutant: a set of the pairs as given, no test of the other orientation
DedupLoopAsGiven(bridges, i, acc) ==
    acc \cup {bridges[k] : k \in i..Len(bridges)}

\* the second loop: drop a pair already present in either orientation
RECURSIVE DedupLoop(_, _, _)
DedupLoop(bridges, i, acc) ==
    IF i > Len(bridges) THEN acc
    ELSE LET key1 == bridges[i]
             key2 == <<bridges[i][2], bridges[i][1]>>
         IN  DedupLoop(bridges, i + 1,
                       IF key1 \notin acc /\ key2 \notin acc
                       THEN acc \cup {key1} ELSE acc)

calc_water_to_residues_map(whs, resn) ==
    LET st == MapLoop(whs, 1, resn,
                      [frame_idx |-> 0, dict |-> EmptyDict,
                       bridges |-> <<>>, raised |-> "none"])
    IN  IF st.raised # "none"
        THEN [raised |-> st.raised, frame_idx |-> 0,
              water_to_residues |-> EmptyDict, solvent_bridges |-> <<>>]
        ELSE [raised |-> "none", frame_idx |-> st.frame_idx,
              water_to_residues |-> st.dict,
              solvent_bridges |-> SortedPairs(DedupLoop(st.bridges, 1, {}))]

---------------------------------------------------------------------------
(* stratify_hbonds.py: water bridges                                       *)

\* mutant: ordered pairs (permutations) instead of combinations
WaterBridgesOfOrdered(f, water, partners) ==
    {<<f, "wb", a, b, water>> : <<a, b>> \in {p \in partners \X partners : p[1] # p[2]}}

\* itertools.combinations(protein_atoms, 2) with the != filter, for one water
WaterBridgesOf(f, water, partners) ==
    LET protein_atoms == SortedStrs(partners)
    IN  {<<f, "wb", protein_atoms[i], protein_atoms[j], water>> :
            <<i, j>> \in {p \in (1..Len(protein_atoms)) \X (1..Len(protein_atoms)) :
                            /\ p[1] < p[2]
                            /\ protein_atoms[p[1]] # protein_atoms[p[2]]}}

stratify_water_bridge(whs, resn) ==
    LET m == calc_water_to_residues_map(whs, resn)
        water_bridges ==
            UNION {WaterBridgesOf(m.frame_idx, w, m.water_to_residues[w]) :
                     w \in DOMAIN m.water_to_residues}
    IN  IF m.raised # "none" THEN [raised |-> m.raised, wb |-> <<>>]
        ELSE [raised |-> "none", wb |-> SortedRows(water_bridges)]

\* mutant: the inner loop runs over the first water's partners again
ExtendedBridgesOfFirstList(f, pair, dict) ==
    LET water1 == pair[1]
        water2 == pair[2]
    IN  IF water1 \notin DOMAIN dict \/ water2 \notin DOMAIN dict THEN {}
        ELSE {<<f, "wb2", atom1, atom2, water1, water2>> :
                <<atom1, atom2>> \in dict[water1] \X dict[water1]}

\* the tuples one solvent pair adds to extended_water_bridges
ExtendedBridgesOf(f, pair, dict) ==
    LET water1 == pair[1]
        water2 == pair[2]
    IN  IF water1 \notin DOMAIN dict \/ water2 \notin DOMAIN dict THEN {}
        ELSE {<<f, "wb2", atom1, atom2, water1, water2>> :
                <<atom1, atom2>> \in dict[water1] \X dict[water2]}

\* the final loop: unpack a sorted tuple under the names
\* (frame_idx, atom1, water1, water2, atom2, itype) and list them in that order
Repack(t) ==
    LET fidx   == t[1]
        atom1  == t[2]
        water1 == t[3]
        water2 == t[4]
        atom2  == t[5]
        itype  == t[6]
    IN  <<fidx, atom1, water1, water2, atom2, itype>>

stratify_extended_water_bridge(whs, resn) ==
    LET m == calc_water_to_residues_map(whs, resn)
        extended_water_bridges ==
            UNION {ExtendedBridgesOf(m.frame_idx, m.solvent_bridges[i],
                                     m.water_to_residues) :
                     i \in 1..Len(m.solvent_bridges)}
        sorted == SortedRows(extended_water_bridges)
    IN  IF m.raised # "none" THEN [raised |-> m.raised, wb2 |-> <<>>]
        ELSE [raised |-> "none",
              wb2 |-> [i \in 1..Len(sorted) |-> Repack(sorted[i])]]

\* the first exception raised by the three calls, in call order
FirstRaised(res, w1, w2) ==
    IF res.raised # "none" THEN res.raised
    ELSE IF w1.raised # "none" THEN w1.raised
    ELSE w2.raised

\* mutant: the extended bridges joined before the direct ones
ConcatenateExtendedFirst(split, res, w1, w2, exc) ==
    [raised |-> exc,
     residue_hbonds |-> split.residue, water_hbonds |-> split.water,
     hbss |-> res.hbss, hbsb |-> res.hbsb, hbbb |-> res.hbbb,
     wb |-> w1.wb, wb2 |-> w2.wb2,
     hbonds |-> IF exc # "none" THEN <<>>
                ELSE res.hbss \o res.hbsb \o res.hbbb \o w2.wb2 \o w1.wb]

\* hbonds = hbss + hbsb + hbbb + wb + wb2, and the locals it is made of
Concatenate(split, res, w1, w2, exc) ==
    [raised |-> exc,
     residue_hbonds |-> split.residue, water_hbonds |-> split.water,
     hbss |-> res.hbss, hbsb |-> res.hbsb, hbbb |-> res.hbbb,
     wb |-> w1.wb, wb2 |-> w2.wb2,
     hbonds |-> IF exc # "none" THEN <<>>
                ELSE res.hbss \o res.hbsb \o res.hbbb \o w1.wb \o w2.wb2]

StratifySplit(split, res, w1, w2) ==
    Concatenate(split, res, w1, w2, FirstRaised(res, w1, w2))

StratifyParts(split, resn) ==
    StratifySplit(split,
                  stratify_residue_hbonds(split.residue),
                  stratify_water_bridge(split.water, resn),
                  stratify_extended_water_bridge(split.water, resn))

stratify_hbond_subtypes(hbs, resn) ==
    StratifyParts(residue_vs_water_hbonds(hbs, resn), resn)

---------------------------------------------------------------------------
(* Inputs.                                                                 *)


\* contacts of frame f between the atoms of A and those of B
Contacts(f, A, B) == {<<f, a, b, "hb">> : <<a, b>> \in A \X B}

\* all batches of at most n contacts drawn from C
Batches(C, n) == UNION {[1..k -> C] : k \in 0..n}

ResidueBatches ==
    UNION {Batches(Contacts(f, ResidueAtoms, ResidueAtoms), MaxResLen) : f \in Frames}

WaterProteinBatches ==
    UNION {Batches(Contacts(f, Waters, Proteins3) \cup Contacts(f, Proteins3, Waters),
                   MaxBridgeLen) : f \in Frames}

WaterBatches ==
    UNION {Batches(Contacts(f, Waters, Waters) \cup Contacts(f, Waters, Proteins2)
                       \cup Contacts(f, Proteins2, Waters),
                   MaxWaterLen) : f \in Frames}

MixedAtoms == Proteins3 \cup Waters

MixedBatches ==
    UNION {Batches(Contacts(f, MixedAtoms, MixedAtoms), MaxLen) : f \in Frames}

\* a water, a protein atom and the decoys
SolventAtoms == {"W:TIP3:1:OH2:900", "A:ASP:12:OD1:100"} \cup Decoys

SolventBatches ==
    UNION {Batches(Contacts(f, SolventAtoms, SolventAtoms), MaxSolventLen) : f \in Frames}

\* the malformed labels, a five-field protein atom and a five-field water
ParseAtoms == Malformed \cup {"A:ARG:50:N:200", "W:TIP3:1:OH2:900"}

ParseBatches ==
    UNION {Batches(Contacts(f, ParseAtoms, ParseAtoms), MaxParseLen) : f \in Frames}

\* the pairs of atoms of the mixed-frame batches: two waters with a partner
\* each, one of them with two, a bond between the waters and one between
\* the protein atoms
FramePairs ==
    {<<"W:TIP3:1:OH2:900", "A:ASP:12:OD1:100">>,
     <<"W:TIP3:1:OH2:900", "A:ARG:50:N:200">>,
     <<"A:ARG:50:N:200", "W:TIP3:2:OH2:903">>,
     <<"W:TIP3:1:OH2:900", "W:TIP3:2:OH2:903">>,
     <<"A:ASP:12:OD1:100", "A:ARG:50:N:200">>}

\* batches whose contacts each have a frame index of their own
FrameBatches ==
    Batches({<<f, p[1], p[2], "hb">> : <<f, p>> \in Frames \X FramePairs}, MaxFrameLen)

\* ring centers and normals on the integer grid
Coords == (-MaxCoord)..MaxCoord
Points == {<<x, y, z>> : x \in Coords, y \in Coords, z \in Coords}
FirstCenters == {<<0, 0, 0>>, <<1, 0, -1>>}

---------------------------------------------------------------------------
(* The state machine: an input is chosen, then one function is applied.    *)

\* no stratification input, nothing returned
StratIdle ==
    /\ hbonds = <<>>
    /\ solvent_resn = TIP3
    /\ residue_hbonds = <<>>
    /\ water_hbonds = <<>>
    /\ hbss = <<>>
    /\ hbsb = <<>>
    /\ hbbb = <<>>
    /\ wb = <<>>
    /\ wb2 = <<>>
    /\ frame_idx = 0
    /\ water_to_residues = EmptyDict
    /\ solvent_bridges = <<>>
    /\ result = <<>>

\* no ring geometry input, nothing returned
GeomIdle ==
    /\ center1 = <<0, 0, 0>>
    /\ center2 = <<0, 0, 0>>
    /\ normal_vector = <<0, 0, 0>>
    /\ psi_angle = Degrees(0)

InitWith(batches) ==
    /\ hbonds \in batches
    /\ solvent_resn = TIP3
    /\ call = "none"
    /\ raised = "none"
    /\ residue_hbonds = <<>>
    /\ water_hbonds = <<>>
    /\ hbss = <<>>
    /\ hbsb = <<>>
    /\ hbbb = <<>>
    /\ wb = <<>>
    /\ wb2 = <<>>
    /\ frame_idx = 0
    /\ water_to_residues = EmptyDict
    /\ solvent_bridges = <<>>
    /\ result = <<>>
    /\ GeomIdle

Init == InitWith(MixedBatches)
InitResidue == InitWith(ResidueBatches)
InitWaterBridge == InitWith(WaterProteinBatches)
InitWater == InitWith(WaterBatches)
InitParse == InitWith(ParseBatches)
InitFrames == InitWith(FrameBatches)

InitSolvent ==
    /\ hbonds \in SolventBatches
    /\ solvent_resn \in Tokens
    /\ call = "none"
    /\ raised = "none"
    /\ residue_hbonds = <<>>
    /\ water_hbonds = <<>>
    /\ hbss = <<>>
    /\ hbsb = <<>>
    /\ hbbb = <<>>
    /\ wb = <<>>
    /\ wb2 = <<>>
    /\ frame_idx = 0
    /\ water_to_residues = EmptyDict
    /\ solvent_bridges = <<>>
    /\ result = <<>>
    /\ GeomIdle

InitGeom ==
    /\ center1 \in FirstCenters
    /\ center2 \in Points
    /\ normal_vector \in Points
    /\ psi_angle = Degrees(0)
    /\ call = "none"
    /\ raised = "none"
    /\ StratIdle

CalcGeomPsiAngle ==
    /\ call = "none"
    /\ \E r \in {calc_geom_psi_angle(center1, center2, normal_vector)} :
           /\ raised' = r.raised
           /\ psi_angle' = r.psi_angle
    /\ call' = "calc_geom_psi_angle"
    /\ UNCHANGED <<center1, center2, normal_vector>>
    /\ UNCHANGED strat

ResidueVsWaterHbonds ==
    /\ call = "none"
    /\ \E r \in {residue_vs_water_hbonds(hbonds, solvent_resn)} :
           /\ residue_hbonds' = r.residue
           /\ water_hbonds' = r.water
    /\ call' = "residue_vs_water_hbonds"
    /\ UNCHANGED <<hbonds, solvent_resn, raised, hbss, hbsb, hbbb, wb, wb2,
                   frame_idx, water_to_residues, solvent_bridges, result>>
    /\ UNCHANGED geom

StratifyResidueHbonds ==
    /\ call = "none"
    /\ \E r \in {stratify_residue_hbonds(hbonds)} :
           /\ raised' = r.raised
           /\ hbss' = r.hbss
           /\ hbsb' = r.hbsb
           /\ hbbb' = r.hbbb
    /\ call' = "stratify_residue_hbonds"
    /\ UNCHANGED <<hbonds, solvent_resn, residue_hbonds, water_hbonds, wb, wb2,
                   frame_idx, water_to_residues, solvent_bridges, result>>
    /\ UNCHANGED geom

CalcWaterToResiduesMap ==
    /\ call = "none"
    /\ \E r \in {calc_water_to_residues_map(hbonds, solvent_resn)} :
           /\ raised' = r.raised
           /\ frame_idx' = r.frame_idx
           /\ water_to_residues' = r.water_to_residues
           /\ solvent_bridges' = r.solvent_bridges
    /\ call' = "calc_water_to_residues_map"
    /\ UNCHANGED <<hbonds, solvent_resn, residue_hbonds, water_hbonds,
                   hbss, hbsb, hbbb, wb, wb2, result>>
    /\ UNCHANGED geom

StratifyWaterBridge ==
    /\ call = "none"
    /\ \E r \in {stratify_water_bridge(hbonds, solvent_resn)} :
           /\ raised' = r.raised
           /\ wb' = r.wb
    /\ call' = "stratify_water_bridge"
    /\ UNCHANGED <<hbonds, solvent_resn, residue_hbonds, water_hbonds,
                   hbss, hbsb, hbbb, wb2, frame_idx, water_to_residues,
                   solvent_bridges, result>>
    /\ UNCHANGED geom

StratifyExtendedWaterBridge ==
    /\ call = "none"
    /\ \E r \in {stratify_extended_water_bridge(hbonds, solvent_resn)} :
           /\ raised' = r.raised
           /\ wb2' = r.wb2
    /\ call' = "stratify_extended_water_bridge"
    /\ UNCHANGED <<hbonds, solvent_resn, residue_hbonds, water_hbonds,
                   hbss, hbsb, hbbb, wb, frame_idx, water_to_residues,
                   solvent_bridges, result>>
    /\ UNCHANGED geom

StratifyHbondSubtypes ==
    /\ call = "none"
    /\ \E r \in {stratify_hbond_subtypes(hbonds, solvent_resn)} :
           /\ raised' = r.raised
           /\ residue_hbonds' = r.residue_hbonds
           /\ water_hbonds' = r.water_hbonds
           /\ hbss' = r.hbss
           /\ hbsb' = r.hbsb
           /\ hbbb' = r.hbbb
           /\ wb' = r.wb
           /\ wb2' = r.wb2
           /\ result' = r.hbonds
    /\ call' = "stratify_hbond_subtypes"
    /\ UNCHANGED <<hbonds, solvent_resn, frame_idx, water_to_residues,
                   solvent_bridges>>
    /\ UNCHANGED geom

Next == StratifyHbondSubtypes
NextResidue == StratifyResidueHbonds
NextWaterBridge == StratifyWaterBridge
NextWater == CalcWaterToResiduesMap \/ StratifyExtendedWaterBridge
NextParse == StratifyHbondSubtypes
NextGeom == CalcGeomPsiAngle
NextFrames == StratifyHbondSubtypes \/ CalcWaterToResiduesMap
NextSolvent ==
    ResidueVsWaterHbonds \/ CalcWaterToResiduesMap \/ StratifyHbondSubtypes

Spec == Init /\ [][Next]_vars
SpecResidue == InitResidue /\ [][NextResidue]_vars
SpecWaterBridge == InitWaterBridge /\ [][NextWaterBridge]_vars
SpecWater == InitWater /\ [][NextWater]_vars
SpecSolvent == InitSolvent /\ [][NextSolvent]_vars
SpecParse == InitParse /\ [][NextParse]_vars
SpecGeom == InitGeom /\ [][NextGeom]_vars
SpecFrames == InitFrames /\ [][NextFrames]_vars

---------------------------------------------------------------------------
(* What the claims are stated with: read off the input, not computed by    *)
(* the operators above.                                                    *)

\* the atom name each label of the input space carries
NameOf(label) ==
    CASE label = "A:ASP:12:OD1:100" -> "OD1"
      [] label = "A:ARG:50:NH1:200" -> "NH1"
      [] label = "A:ARG:50:N:200"   -> "N"
      [] label = "A:GLY:7:O:300"    -> "O"
      [] OTHER                      -> "OH2"

\* the labels of the input space in ascending str order
Ascending == <<"A:ARG:50:N:200", "A:ARG:50:NH1:200", "A:ASP:12:OD1:100",
               "A:GLY:7:O:300", "W:TIP3:1:OH2:900", "W:TIP3:2:OH2:903">>

Rank(label) == CHOOSE i \in 1..Len(Ascending) : Ascending[i] = label

\* how many of the two atom names of contact h are N or O
BackboneCount(h) ==
    (IF NameOf(h[2]) \in {"N", "O"} THEN 1 ELSE 0)
    + (IF NameOf(h[3]) \in {"N", "O"} THEN 1 ELSE 0)

\* the row of contact h under tag
RowOf(h, tag) == <<h[1], tag, h[2], h[3]>>

\* how often x occurs in list
Count(list, x) == Cardinality({i \in 1..Len(list) : list[i] = x})

Range(list) == {list[i] : i \in 1..Len(list)}

\* the protein atoms water w is bonded to in the input, either way round
Partners(w) ==
    {p \in Labels \ Waters :
        \E i \in 1..Len(hbonds) :
            \/ hbonds[i][2] = w /\ hbonds[i][3] = p
            \/ hbonds[i][2] = p /\ hbonds[i][3] = w}

\* the input holds a solvent-solvent bond from w1 to w2
Bonded(w1, w2) ==
    \E i \in 1..Len(hbonds) : hbonds[i][2] = w1 /\ hbonds[i][3] = w2

Returned(f) == call = f /\ raised = "none"

---------------------------------------------------------------------------
(* Residue-residue stratification (SpecResidue).                           *)

\* C1: every residue-residue hydrogen bond gets its row in the bucket its
\* two atom names select against {N, O} by exact equality: none of them a
\* backbone name -> hbss, exactly one -> hbsb, both -> hbbb; it gets no row
\* in the other two buckets, and a bucket holds rows of its own tag only.
C1_ClassifiedByAtomName ==
    Returned("stratify_residue_hbonds") =>
        /\ \A i \in 1..Len(hbonds) :
              LET h == hbonds[i]
                  k == BackboneCount(h)
              IN  /\ (RowOf(h, "hbss") \in Range(hbss)) <=> (k = 0)
                  /\ (RowOf(h, "hbsb") \in Range(hbsb)) <=> (k = 1)
                  /\ (RowOf(h, "hbbb") \in Range(hbbb)) <=> (k = 2)
        /\ \A r \in Range(hbss) : r[2] = "hbss"
        /\ \A r \in Range(hbsb) : r[2] = "hbsb"
        /\ \A r \in Range(hbbb) : r[2] = "hbbb"

\* C1 witness: the end-to-end example, OD1-NH1 as hbss and OD1-N as hbsb.
C1_Witness ==
    /\ Returned("stratify_residue_hbonds")
    /\ hbonds = << <<0, "A:ASP:12:OD1:100", "A:ARG:50:NH1:200", "hb">>,
                   <<0, "A:ASP:12:OD1:100", "A:ARG:50:N:200", "hb">> >>
    /\ hbss = << <<0, "hbss", "A:ASP:12:OD1:100", "A:ARG:50:NH1:200">> >>
    /\ hbsb = << <<0, "hbsb", "A:ASP:12:OD1:100", "A:ARG:50:N:200">> >>
    /\ hbbb = <<>>

\* C2: the three buckets partition the input: their lengths sum to the
\* input's length, and each contact has, over the three buckets together,
\* as many rows as it has occurrences in the input, all in one bucket.
C2_Partition ==
    Returned("stratify_residue_hbonds") =>
        /\ Len(hbss) + Len(hbsb) + Len(hbbb) = Len(hbonds)
        /\ \A i \in 1..Len(hbonds) :
              LET h  == hbonds[i]
                  ss == Count(hbss, RowOf(h, "hbss"))
                  sb == Count(hbsb, RowOf(h, "hbsb"))
                  bb == Count(hbbb, RowOf(h, "hbbb"))
              IN  /\ ss + sb + bb = Count(hbonds, h)
                  /\ Cardinality({t \in {"ss", "sb", "bb"} :
                                    CASE t = "ss" -> ss > 0
                                      [] t = "sb" -> sb > 0
                                      [] OTHER    -> bb > 0}) = 1

\* C2 witness: a batch of three with a repeated contact and two buckets used.
C2_Witness ==
    /\ Returned("stratify_residue_hbonds")
    /\ Len(hbonds) = 3
    /\ hbonds[1] = hbonds[3]
    /\ Len(hbss) = 2
    /\ Len(hbbb) = 1

\* the tags of the buckets that hold a row of contact h
BucketsOf(h) ==
    {t \in {"hbss", "hbsb", "hbbb"} :
        RowOf(h, t) \in Range(CASE t = "hbss" -> hbss
                                [] t = "hbsb" -> hbsb
                                [] OTHER      -> hbbb)}

\* C3: a contact and the contact with its two atoms swapped land in the
\* same bucket.
C3_Symmetric ==
    Returned("stratify_residue_hbonds") =>
        \A i, j \in 1..Len(hbonds) :
            (hbonds[i][2] = hbonds[j][3] /\ hbonds[i][3] = hbonds[j][2])
                => BucketsOf(hbonds[i]) = BucketsOf(hbonds[j])

\* C3 witness: OD1-N and N-OD1 in one batch, both in hbsb.
C3_Witness ==
    /\ Returned("stratify_residue_hbonds")
    /\ hbonds = << <<3, "A:ASP:12:OD1:100", "A:ARG:50:N:200", "hb">>,
                   <<3, "A:ARG:50:N:200", "A:ASP:12:OD1:100", "hb">> >>
    /\ Len(hbsb) = 2

---------------------------------------------------------------------------
(* Direct water bridges (SpecWaterBridge).                                 *)

\* the rows of wb that carry water w
BridgeRowsOf(w) == {i \in 1..Len(wb) : Len(wb[i]) = 5 /\ wb[i][5] = w}

\* C5: in a single-frame batch each water contributes one wb row per
\* unordered pair of its distinct protein partners, C(k,2) rows for k
\* partners, however often a contact is repeated; every wb row belongs to a
\* water, and no wb row has the same atom on both sides.
C5_BridgeCombinatorics ==
    Returned("stratify_water_bridge") =>
        /\ \A w \in Waters :
              LET k == Cardinality(Partners(w))
              IN  /\ 2 * Cardinality(BridgeRowsOf(w)) = k * (k - 1)
                  /\ {{wb[i][3], wb[i][4]} : i \in BridgeRowsOf(w)}
                        = {pr \in SUBSET Partners(w) : Cardinality(pr) = 2}
        /\ \A i \in 1..Len(wb) :
              /\ \E w \in Waters : i \in BridgeRowsOf(w)
              /\ wb[i][3] # wb[i][4]

\* C5 witness: a water with three partners, one of the contacts given twice,
\* and the three rows it gives.
C5_Witness ==
    /\ Returned("stratify_water_bridge")
    /\ \E w \in Waters : Cardinality(Partners(w)) = 3
    /\ Len(hbonds) = 4
    /\ hbonds[1] = hbonds[4]
    /\ Len(wb) = 3

---------------------------------------------------------------------------
(* The water-to-residue map and extended water bridges (SpecWater).        *)

\* the rows of wb2 built from the solvent pair of w1 and w2, either way round
ExtendedRowsOf(w1, w2) ==
    {i \in 1..Len(wb2) : Len(wb2[i]) = 6 /\ {wb2[i][5], wb2[i][6]} = {w1, w2}}

\* the atoms and waters of the rows of ExtendedRowsOf(w1, w2)
ExtendedCombinations(w1, w2) ==
    {<<wb2[i][3], wb2[i][4], wb2[i][5], wb2[i][6]>> : i \in ExtendedRowsOf(w1, w2)}

\* C7: every wb2 row is (frame, atom1, water1, water2, atom2, "wb2"): atom1
\* a partner of water1, the two waters a bonded solvent pair, atom2 a partner
\* of water2, the tag last.
C7_ExtendedRowLayout ==
    Returned("stratify_extended_water_bridge") =>
        \A i \in 1..Len(wb2) :
            LET r == wb2[i]
            IN  /\ Len(r) = 6
                /\ r[3] \in Waters
                /\ r[4] \in Waters
                /\ Bonded(r[3], r[4]) \/ Bonded(r[4], r[3])
                /\ r[2] \in Partners(r[3])
                /\ r[5] \in Partners(r[4])
                /\ r[6] = "wb2"

\* C8: a water without protein partner occurs in no wb2 row, whatever
\* solvent-solvent bonds it has.
C8_BothEndsPopulated ==
    Returned("stratify_extended_water_bridge") =>
        \A w \in Waters :
            Partners(w) = {} =>
                \A i \in 1..Len(wb2) : \A k \in 2..Len(wb2[i]) : wb2[i][k] # w

\* C8 witness: w1 without partner bonded to w2 with one, and wb2 rows of w2.
C8_Witness ==
    /\ Returned("stratify_extended_water_bridge")
    /\ \E w1, w2 \in Waters :
          /\ w1 # w2
          /\ Bonded(w1, w2)
          /\ Partners(w1) = {}
          /\ Partners(w2) # {}
    /\ wb2 # <<>>

\* C9: in a single-frame batch each bonded solvent pair {w1, w2} has
\* |P(w1)| * |P(w2)| wb2 rows, one per combination of a partner of the one
\* and a partner of the other, each carrying both waters, whether the bond
\* is given one way round or both; every wb2 row belongs to a bonded pair.
C9_ExtendedCombinatorics ==
    Returned("stratify_extended_water_bridge") =>
        /\ \A w1, w2 \in Waters :
              (Bonded(w1, w2) \/ Bonded(w2, w1)) =>
                  /\ Cardinality(ExtendedRowsOf(w1, w2))
                        = Cardinality(Partners(w1)) * Cardinality(Partners(w2))
                  /\ \/ ExtendedCombinations(w1, w2)
                          = {<<a, b, w1, w2>> : <<a, b>> \in Partners(w1) \X Partners(w2)}
                     \/ ExtendedCombinations(w1, w2)
                          = {<<b, a, w2, w1>> : <<a, b>> \in Partners(w1) \X Partners(w2)}
        /\ \A i \in 1..Len(wb2) :
              \E w1, w2 \in Waters :
                  (Bonded(w1, w2) \/ Bonded(w2, w1)) /\ i \in ExtendedRowsOf(w1, w2)

\* C9 witness: a bond given both ways round between two waters with one
\* partner each, and the single row it gives.
C9_Witness ==
    /\ Returned("stratify_extended_water_bridge")
    /\ \E w1, w2 \in Waters :
          /\ w1 # w2
          /\ Bonded(w1, w2)
          /\ Bonded(w2, w1)
          /\ Partners(w1) # {}
          /\ Partners(w2) # {}
    /\ Len(wb2) = 1

\* C10: when a solvent-solvent bond occurs both ways round, the returned
\* solvent-bridge list has exactly one entry for the unordered pair.
C10_OneEntryPerPair ==
    Returned("calc_water_to_residues_map") =>
        \A w1, w2 \in Waters :
            (Bonded(w1, w2) /\ Bonded(w2, w1)) =>
                Cardinality({i \in 1..Len(solvent_bridges) :
                               solvent_bridges[i] \in {<<w1, w2>>, <<w2, w1>>}}) = 1

\* C10 witness: (w1, w2) twice around one (w2, w1), one entry returned.
C10_Witness ==
    /\ Returned("calc_water_to_residues_map")
    /\ Len(hbonds) = 3
    /\ hbonds[1][2] # hbonds[1][3]
    /\ hbonds[1][2] \in Waters
    /\ hbonds[1][3] \in Waters
    /\ hbonds[2][2] = hbonds[1][3]
    /\ hbonds[2][3] = hbonds[1][2]
    /\ hbonds[3] = hbonds[1]
    /\ Len(solvent_bridges) = 1

\* the pairs of bonded waters, lesser label first, read off the input
CanonicalPairs ==
    {<<w1, w2>> : <<w1, w2>> \in
        {p \in Waters \X Waters :
            /\ Rank(p[1]) <= Rank(p[2])
            /\ Bonded(p[1], p[2]) \/ Bonded(p[2], p[1])}}

\* pair p sorts strictly before pair q
PairBefore(p, q) ==
    \/ Rank(p[1]) < Rank(q[1])
    \/ Rank(p[1]) = Rank(q[1]) /\ Rank(p[2]) < Rank(q[2])

---------------------------------------------------------------------------
(* Solvent recognition (SpecSolvent).                                      *)

\* the residue name each label of the solvent-recognition space carries
ResnOf(label) ==
    CASE label = "W:TIP3:1:OH2:900"    -> "TIP3"
      [] label = "A:ASP:12:OD1:100"    -> "ASP"
      [] label = "TIP3:ASP:12:OD1:100" -> "ASP"
      [] label = "A:LIG:7:TIP:300"     -> "LIG"
      [] OTHER                         -> "?"

\* the token (TIP3 or TIP) is part of the label's residue name
SolventByResn(label) == ResnOf(label) = "TIP3"

\* C12: an atom counts as solvent exactly when the token is part of its
\* residue name: residue_vs_water_hbonds puts into water_hbonds the contacts
\* with such an atom and into residue_hbonds the others, and
\* calc_water_to_residues_map rejects a contact without such an atom, keys
\* its map by such atoms only and maps them to other atoms only.
C12_ResidueNameField ==
    /\ Returned("residue_vs_water_hbonds") =>
          /\ water_hbonds
                = SelectSeq(hbonds, LAMBDA h : SolventByResn(h[2]) \/ SolventByResn(h[3]))
          /\ residue_hbonds
                = SelectSeq(hbonds, LAMBDA h : ~SolventByResn(h[2]) /\ ~SolventByResn(h[3]))
    /\ call = "calc_water_to_residues_map" =>
          /\ raised = "ValueError"
                <=> \E i \in 1..Len(hbonds) :
                       ~SolventByResn(hbonds[i][2]) /\ ~SolventByResn(hbonds[i][3])
          /\ \A w \in DOMAIN water_to_residues :
                /\ SolventByResn(w)
                /\ \A p \in water_to_residues[w] : ~SolventByResn(p)

\* the label holds the token somewhere, read off the label
HoldsToken(tok, label) ==
    CASE label = "W:TIP3:1:OH2:900"    -> TRUE
      [] label = "TIP3:ASP:12:OD1:100" -> TRUE
      [] label = "A:LIG:7:TIP:300"     -> tok = "TIP"
      [] OTHER                         -> FALSE

\* contact h has no label that holds the token
Unresolved(h) ==
    ~HoldsToken(solvent_resn, h[2]) /\ ~HoldsToken(solvent_resn, h[3])

\* C13: calc_water_to_residues_map ends with the ValueError, and with no
\* frame index, map or bridge list, exactly when some contact of its batch,
\* at whatever position, has no label that holds the solvent token; and
\* stratify_hbond_subtypes never ends with this error.
C13_UnresolvedRaises ==
    /\ call = "calc_water_to_residues_map" =>
          /\ raised = "ValueError"
                <=> \E i \in 1..Len(hbonds) : Unresolved(hbonds[i])
          /\ raised \in {"none", "ValueError"}
          /\ raised = "ValueError" =>
                /\ frame_idx = 0
                /\ water_to_residues = EmptyDict
                /\ solvent_bridges = <<>>
    /\ call = "stratify_hbond_subtypes" => raised # "ValueError"

\* C13 witness: a frame-3 batch whose first contact has a solvent atom and
\* whose second has none, ended with the ValueError.
C13_Witness ==
    /\ call = "calc_water_to_residues_map"
    /\ raised = "ValueError"
    /\ Len(hbonds) = 2
    /\ hbonds[1][1] = 3
    /\ ~Unresolved(hbonds[1])
    /\ Unresolved(hbonds[2])

---------------------------------------------------------------------------
(* Label format (SpecParse).                                               *)

\* the number of colon-delimited fields of each label of the format space
FieldCount(label) ==
    CASE label = "A:ASP:12"           -> 3
      [] label = "W:TIP3:1"           -> 3
      [] label = "A:ASP:12:OD1"       -> 4
      [] label = "A:ASP:12:OD1:100:X" -> 6
      [] OTHER                        -> 5

\* C14: whenever a label of the batch does not have exactly five fields,
\* stratify_hbond_subtypes ends with an error and returns no row.
C14_ParseError ==
    call = "stratify_hbond_subtypes" =>
        ((\E i \in 1..Len(hbonds) :
             FieldCount(hbonds[i][2]) # 5 \/ FieldCount(hbonds[i][3]) # 5)
            => (raised # "none" /\ result = <<>>))

---------------------------------------------------------------------------
(* Ring geometry (SpecGeom).                                               *)

\* the normal pointing the other way, whose angle is 180 minus the angle
Opposite(v) == [i \in 1..3 |-> -v[i]]

\* C15: calc_geom_psi_angle returns, for any two centers and any normal, an
\* angle of 0 to 90 degrees, and the same angle for the opposite normal.
C15_PsiWithinRange ==
    call = "calc_geom_psi_angle" =>
        /\ raised = "none"
        /\ ~psi_angle.nan
        /\ 0 <= psi_angle.deg
        /\ psi_angle.deg <= 90
        /\ calc_geom_psi_angle(center1, center2, Opposite(normal_vector))
              = [raised |-> "none", psi_angle |-> psi_angle]

---------------------------------------------------------------------------
(* Frame indices (SpecFrames).                                             *)

\* the positions of the contacts of the batch with a water
WaterTouching ==
    {i \in 1..Len(hbonds) : hbonds[i][2] \in Waters \/ hbonds[i][3] \in Waters}

\* the frame index of the last contact with a water, 0 without one
LastWaterFrame ==
    IF WaterTouching = {} THEN 0
    ELSE hbonds[CHOOSE i \in WaterTouching : \A j \in WaterTouching : j <= i][1]

\* C16: every wb row and every wb2 row carries the frame index of the last
\* contact with a water in the batch, also a bridge whose contacts all have
\* another frame index; calc_water_to_residues_map returns that frame
\* index, and 0 for the empty batch; and when all contacts of the batch
\* share a frame index, every returned row carries it.
C16_LastContactFrame ==
    /\ Returned("stratify_hbond_subtypes") =>
          /\ \A r \in Range(wb) \cup Range(wb2) : r[1] = LastWaterFrame
          /\ \A f \in Frames :
                (\A i \in 1..Len(hbonds) : hbonds[i][1] = f)
                    => \A r \in Range(result) : r[1] = f
    /\ Returned("calc_water_to_residues_map") => frame_idx = LastWaterFrame

\* C16 witness: a water bonded to two protein atoms in frame 0, then a
\* contact of the other water in frame 3, and the bridge row with frame 3.
C16_Witness ==
    /\ Returned("stratify_hbond_subtypes")
    /\ hbonds = << <<0, "W:TIP3:1:OH2:900", "A:ASP:12:OD1:100", "hb">>,
                   <<0, "W:TIP3:1:OH2:900", "A:ARG:50:N:200", "hb">>,
                   <<3, "A:ARG:50:N:200", "W:TIP3:2:OH2:903", "hb">> >>
    /\ result = << <<3, "wb", "A:ARG:50:N:200", "A:ASP:12:OD1:100",
                     "W:TIP3:1:OH2:900">> >>

---------------------------------------------------------------------------
(* The whole stratification (Spec).                                        *)

\* the position of a row's group in the output contract
Group(row) ==
    CASE row[2] = "hbss" -> 1
      [] row[2] = "hbsb" -> 2
      [] row[2] = "hbbb" -> 3
      [] row[2] = "wb"   -> 4
      [] row[2] = "wb2"  -> 5
      [] OTHER           -> 6

\* the ranks of the labels a row holds after its frame index and tag
LabelRanks(row) == [k \in 1..(Len(row) - 2) |-> Rank(row[k + 2])]

\* row r sorts strictly before row s of the same group
RowBefore(r, s) ==
    \/ r[1] < s[1]
    \/ /\ r[1] = s[1]
       /\ \E k \in 1..Len(LabelRanks(r)) :
             /\ k <= Len(LabelRanks(s))
             /\ LabelRanks(r)[k] < LabelRanks(s)[k]
             /\ \A j \in 1..(k - 1) : LabelRanks(r)[j] = LabelRanks(s)[j]

\* C4: the returned list is hbss, hbsb, hbbb, wb and wb2 joined in this
\* order, each bucket holding rows of its own tag; no row of a later group
\* precedes a row of an earlier one, and the wb rows and the wb2 rows are
\* each in strictly ascending order.
C4_FixedOrder ==
    Returned("stratify_hbond_subtypes") =>
        /\ result = hbss \o hbsb \o hbbb \o wb \o wb2
        /\ \A r \in Range(hbss) : Group(r) = 1
        /\ \A r \in Range(hbsb) : Group(r) = 2
        /\ \A r \in Range(hbbb) : Group(r) = 3
        /\ \A r \in Range(wb) : Group(r) = 4
        /\ \A r \in Range(wb2) : Group(r) = 5
        /\ \A i, j \in 1..Len(result) :
              i < j =>
                  /\ Group(result[i]) <= Group(result[j])
                  /\ (Group(result[i]) = Group(result[j]) /\ Group(result[i]) >= 4)
                        => RowBefore(result[i], result[j])

\* C4 witness: a returned list with a wb row followed by several wb2 rows.
C4_Witness ==
    /\ Returned("stratify_hbond_subtypes")
    /\ Len(wb) >= 1
    /\ Len(wb2) >= 2
    /\ Len(result) = Len(wb) + Len(wb2)

\* every contact of the batch is a bond between water w and r1 or r2
OnlyBondsOf(w, r1, r2) ==
    \A i \in 1..Len(hbonds) : {hbonds[i][2], hbonds[i][3]} \in {{w, r1}, {w, r2}}

=============================================================================
